---- MODULE Spec2Model ----
(***************************************************************************)
(* PlantPal RAG core: embedding generation and storage, the batch          *)
(* embedding backfill, similarity search, the RAG context builder and the  *)
(* photo-diagnosis entry point, modelled from src/rag, src/repositories,   *)
(* src/services and src/plant_pal_bot.                                     *)
(*                                                                         *)
(* Similarities are integers in thousandths (700 is 0.7).  Embedding       *)
(* vectors are two-dimensional integer vectors of norm 5, so that every    *)
(* cosine is an exact multiple of 0.04.                                    *)
(***************************************************************************)
EXTENDS Integers, Sequences, FiniteSets, TLC

VARIABLES photos, diagnoses, embeddings, ret, prev, pc, loc

vars == <<photos, diagnoses, embeddings, ret, prev, pc, loc>>

(***************************************************************************)
(* Bounds of the model.                                                    *)
(***************************************************************************)
MaxDiag == 2
MaxLimit == 2
MaxEmb == 3
MaxHist == 4
MaxIssues == 6
MaxItems == 4

PhotoIds == {1, 2}
Users == {1, 2}
NULL == "NULL"

\* The user who uploads photo p (photos alternate between the two users).
Owner(p) == IF p % 2 = 1 THEN 1 ELSE 2

\* The species of the plant a photo is linked to: photo 1 shows a monstera,
\* photo 2 is linked to no plant.  Species names are in lower case.
NoSpecies == "None"
PlantSpecies(p) == IF p = 1 THEN "monstera" ELSE NoSpecies

\* NULL in a numeric column (confidence_score, user_feedback_rating).
NoNumber == -1

\* Python's None where a dict is expected.
NoneValue == [kind |-> "None"]

(***************************************************************************)
(* Sequence helpers.                                                       *)
(***************************************************************************)
Range(s) == {s[i] : i \in 1..Len(s)}

Min(a, b) == IF a < b THEN a ELSE b

\* Python's s[:n] for n >= 0.
Take(s, n) == SubSeq(s, 1, Min(n, Len(s)))

(***************************************************************************)
(* Embedding vectors and the two similarity measures.                      *)
(***************************************************************************)
StoreVectors == {<<5, 0>>, <<4, 3>>, <<3, 4>>}
QueryVectors == {<<5, 0>>, <<4, 3>>}

\* numpy.dot of two vectors of the same length.
RECURSIVE DotFrom(_, _, _)
DotFrom(a, b, i) == IF i > Len(a) THEN 0 ELSE a[i] * b[i] + DotFrom(a, b, i + 1)

Dot(a, b) == DotFrom(a, b, 1)

\* numpy.linalg.norm on the vectors of the model (norm 5 or 0).
Norm(a) == CHOOSE n \in 0..10 : n * n = Dot(a, a)

\* pgvector: 1 - cosine_distance, i.e. the raw cosine in [-1, 1], thousandths.
\* A zero vector gives NaN, which fails every comparison.
RawCosine(a, b) == (Dot(a, b) * 1000) \div (Norm(a) * Norm(b))

\* A mutant of calculate_cosine_similarity: a zero norm counts as cosine 0
\* and is normalised like any other value.
cosine_zero_normalised(a, b) ==
    IF Len(a) # Len(b)
    THEN 0
    ELSE IF Norm(a) = 0 \/ Norm(b) = 0
    THEN 500
    ELSE (RawCosine(a, b) + 1000) \div 2

\* calculate_cosine_similarity: (cos + 1) / 2, or 0.0 on a zero norm.
\* numpy.dot raises on vectors of different lengths: the except clause
\* returns 0.0.
calculate_cosine_similarity(a, b) ==
    IF Len(a) # Len(b)
    THEN 0
    ELSE IF Norm(a) = 0 \/ Norm(b) = 0
    THEN 0
    ELSE (RawCosine(a, b) + 1000) \div 2

\* embed_text is the external embedding model: deterministic in its text.
\* The text built for photo p is abstracted by p.
embed_text(t) ==
    IF t % 3 = 1 THEN <<5, 0>> ELSE IF t % 3 = 2 THEN <<4, 3>> ELSE <<3, 4>>

(***************************************************************************)
(* The store: photo_embeddings and photo_diagnoses tables.                 *)
(***************************************************************************)
NextId(table) ==
    IF table = <<>> THEN 1
    ELSE 1 + (CHOOSE m \in {table[i].id : i \in 1..Len(table)} :
                 \A j \in 1..Len(table) : table[j].id <= m)

\* Python's None where a row is expected (.first() without a match).
NoRow == [id |-> 0]
IsNone(row) == row.id = 0

\* get_embedding_by_photo_id: the first row for the photo, or None.
get_embedding_by_photo_id(store, photo_id) ==
    LET hits == {i \in 1..Len(store) : store[i].photo_id = photo_id}
    IN IF hits = {} THEN NoRow
       ELSE store[CHOOSE i \in hits : \A j \in hits : i <= j]

\* EmbeddingCreate as generate_and_store_embedding builds it: the metadata is
\* passed under the keyword "metadata", which is no field of the schema, so
\* metadata_info keeps its default.
EmbeddingCreateFields ==
    {"photo_id", "user_id", "embedding_vector", "embedding_model", "metadata_info"}

\* create_embedding_metadata: the species of the plant context, when there
\* is one, goes under the key plant_species.
create_embedding_metadata(photo_id) ==
    [kind |-> "dict", plant_species |-> PlantSpecies(photo_id)]

EmbeddingCreate(photo_id, user_id, vec, metadata_keyword, metadata) ==
    [photo_id |-> photo_id, user_id |-> user_id, embedding_vector |-> vec,
     metadata_info |-> IF metadata_keyword = "metadata_info" THEN metadata ELSE NoneValue]

\* A mutant of create_embedding: an upsert on photo_id.
create_embedding_upsert(store, data) ==
    LET hits == {i \in 1..Len(store) : store[i].photo_id = data.photo_id}
    IN IF hits = {}
       THEN Append(store, [id |-> NextId(store)] @@ data)
       ELSE [i \in 1..Len(store) |->
                IF i \in hits THEN [id |-> store[i].id] @@ data ELSE store[i]]

\* create_embedding: a plain INSERT (db.add, db.commit).
create_embedding(store, data) ==
    Append(store, [id |-> NextId(store)] @@ data)

EmbeddingCount(store, p) == Cardinality({i \in 1..Len(store) : store[i].photo_id = p})

AtMostOneEmbeddingPerPhoto(store) == \A p \in PhotoIds : EmbeddingCount(store, p) <= 1

(***************************************************************************)
(* generate_and_store_embedding.                                           *)
(* A fault names the downstream call that raises during one invocation:    *)
(*   lookup  - get_embedding_by_photo_id                                   *)
(*   embed   - embed_text                                                  *)
(*   insert  - create_embedding, before the row is committed               *)
(*   refresh - create_embedding, in db.refresh after the commit            *)
(***************************************************************************)
GenFaults == {"none", "lookup", "embed", "insert", "refresh"}

NoPhoto == "none"

\* A mutant of existing_embedding_found: the existence check is skipped.
existing_embedding_ignored(store, photo_id) == FALSE

\* Lines 133-134: "if existing_embedding".
existing_embedding_found(store, photo_id) ==
    ~IsNone(get_embedding_by_photo_id(store, photo_id))

\* The try block of generate_and_store_embedding.  hit: the call that raised
\* ("none" when the block returned); val: the value returned; embeds: calls
\* of embed_text made.  The insert violates the foreign key of
\* photo_embeddings.photo_id when the photo row does not exist.
generate_and_store_body(store, ph, photo_id, user_id, fault) ==
    IF fault = "lookup"
    THEN [hit |-> "lookup", val |-> FALSE, embeds |-> 0, store |-> store]
    ELSE IF existing_embedding_found(store, photo_id)
    THEN [hit |-> "none", val |-> TRUE, embeds |-> 0, store |-> store]
    ELSE IF fault = "embed"
    THEN [hit |-> "embed", val |-> FALSE, embeds |-> 1, store |-> store]
    ELSE IF fault = "insert" \/ ph[photo_id] = NoPhoto
    THEN [hit |-> "insert", val |-> FALSE, embeds |-> 1, store |-> store]
    ELSE LET data == EmbeddingCreate(photo_id, user_id, embed_text(photo_id),
                                     "metadata", create_embedding_metadata(photo_id))
             stored == create_embedding(store, data)
         IN IF fault = "refresh"
            THEN [hit |-> "refresh", val |-> FALSE, embeds |-> 1, store |-> stored]
            ELSE [hit |-> "none", val |-> TRUE, embeds |-> 1, store |-> stored]

\* A mutant of generate_and_store_embedding: no except clause.
generate_and_store_unguarded(store, ph, photo_id, user_id, fault) ==
    LET propagate(b) == [ok |-> b.val, raised |-> b.hit # "none", hit |-> b.hit,
                         embeds |-> b.embeds, store |-> b.store]
    IN propagate(generate_and_store_body(store, ph, photo_id, user_id, fault))

\* generate_and_store_embedding: "except Exception: return False".
generate_and_store_embedding(store, ph, photo_id, user_id, fault) ==
    LET except(b) == [ok |-> IF b.hit # "none" THEN FALSE ELSE b.val,
                      raised |-> FALSE, hit |-> b.hit, embeds |-> b.embeds,
                      store |-> b.store]
    IN except(generate_and_store_body(store, ph, photo_id, user_id, fault))

(***************************************************************************)
(* batch_generate_embeddings_for_existing_diagnoses, run to completion.    *)
(* plan[i] is the fault of the i-th iteration: "lookup318" makes the       *)
(* existence lookup of the loop itself raise, the others are the faults    *)
(* of the generate_and_store_embedding call of that iteration.             *)
(***************************************************************************)
BatchFaults == GenFaults \cup {"lookup318"}

NoStats == [processed |-> 0, successful |-> 0, failed |-> 0, skipped |-> 0,
            error |-> FALSE]

RECURSIVE batch_loop(_, _, _, _, _, _)
batch_loop(ds, i, store, ph, stats, plan) ==
    IF i > Len(ds)
    THEN [stats |-> stats, store |-> store]
    ELSE
      LET d == ds[i]
          s1 == [stats EXCEPT !.processed = @ + 1]
      IN IF plan[i] = "lookup318"
         THEN [stats |-> [s1 EXCEPT !.error = TRUE], store |-> store]
         ELSE IF ~IsNone(get_embedding_by_photo_id(store, d.photo_id))
         THEN batch_loop(ds, i + 1, store, ph, [s1 EXCEPT !.skipped = @ + 1], plan)
         ELSE
           LET count(g) ==
                   IF g.raised
                   THEN [stats |-> [s1 EXCEPT !.error = TRUE], store |-> g.store]
                   ELSE IF g.ok
                   THEN batch_loop(ds, i + 1, g.store, ph,
                                   [s1 EXCEPT !.successful = @ + 1], plan)
                   ELSE batch_loop(ds, i + 1, g.store, ph,
                                   [s1 EXCEPT !.failed = @ + 1], plan)
           IN count(generate_and_store_embedding(store, ph, d.photo_id, d.user_id, plan[i]))

\* db.query(PhotoDiagnosis).limit(limit).all() and the loop; qfail: the query raises.
batch_generate_embeddings_for_existing_diagnoses(store, ph, diags, limit, qfail, plan) ==
    IF qfail
    THEN [stats |-> [NoStats EXCEPT !.error = TRUE], store |-> store]
    ELSE batch_loop(Take(diags, limit), 1, store, ph, NoStats, plan)

(***************************************************************************)
(* Photo and diagnosis creation (photo_service, photo_repo).               *)
(***************************************************************************)
NoRet == [op |-> "none"]

Quiet == pc = [w \in {"backfill1", "backfill2", "live"} |-> "idle"]

\* upload_plant_photo / create_photo: a new row with status pending.
UploadPhoto(p) ==
    /\ Quiet
    /\ photos[p] = NoPhoto
    /\ photos' = [photos EXCEPT ![p] = "pending"]
    /\ ret' = [op |-> "upload", photo |-> p]
    /\ prev' = NoRet
    /\ UNCHANGED <<diagnoses, embeddings, pc, loc>>

\* create_photo_diagnosis: 404 when the photo is missing, else a new
\* diagnosis row and status analyzed.
CreatePhotoDiagnosis(p) ==
    /\ Quiet
    /\ Len(diagnoses) < MaxDiag
    /\ IF photos[p] = NoPhoto
       THEN /\ ret' = [op |-> "create_diagnosis", photo |-> p, raised |-> TRUE]
            /\ UNCHANGED <<photos, diagnoses>>
       ELSE /\ diagnoses' = Append(diagnoses,
                   [id |-> NextId(diagnoses), photo_id |-> p, user_id |-> Owner(p),
                    diagnosis_text |-> "diagnosis", confidence_score |-> NoNumber,
                    user_feedback_rating |-> NoNumber,
                    treatment_outcome |-> NULL, identified_issues |-> <<>>,
                    recommended_actions |-> <<>>,
                    created_at |-> NextId(diagnoses)])
            /\ photos' = [photos EXCEPT ![p] = "analyzed"]
            /\ ret' = [op |-> "create_diagnosis", photo |-> p, raised |-> FALSE]
    /\ prev' = NoRet
    /\ UNCHANGED <<embeddings, pc, loc>>

\* One call of generate_and_store_embedding, from start to return.
GenerateCall(p, fault) ==
    /\ Quiet
    /\ LET g == generate_and_store_embedding(embeddings, photos, p, Owner(p), fault)
       IN /\ embeddings' = g.store
          /\ ret' = [op |-> "generate", photo |-> p, hit |-> g.hit, ok |-> g.ok,
                     raised |-> g.raised, embeds |-> g.embeds]
    /\ UNCHANGED <<photos, diagnoses, pc, loc>>

GenerateAndStore(p, fault) ==
    /\ GenerateCall(p, fault)
    /\ prev' = NoRet

\* The same call, with the call before it remembered in prev when that was a
\* generate_and_store_embedding call too (two calls in sequence).
GenerateAgain(p, fault) ==
    /\ GenerateCall(p, fault)
    /\ prev' = IF ret.op = "generate" THEN ret ELSE NoRet

\* One run of the batch backfill, from start to return.
BatchBackfill(limit, qfail, plan) ==
    /\ Quiet
    /\ LET b == batch_generate_embeddings_for_existing_diagnoses(
                    embeddings, photos, diagnoses, limit, qfail, plan)
       IN /\ embeddings' = b.store
          /\ ret' = [op |-> "batch", limit |-> limit, stats |-> b.stats]
    /\ prev' = NoRet
    /\ UNCHANGED <<photos, diagnoses, pc, loc>>

IdleWorkers == [w \in {"backfill1", "backfill2", "live"} |-> "idle"]
NoLocals == [w \in {"backfill1", "backfill2", "live"} |->
               [n |-> 0, i |-> 0, photo |-> 0, inserted |-> {}]]

Init ==
    /\ photos = [p \in PhotoIds |-> NoPhoto]
    /\ diagnoses = <<>>
    /\ embeddings = <<>>
    /\ ret = NoRet
    /\ prev = NoRet
    /\ pc = IdleWorkers
    /\ loc = NoLocals

Next ==
    \/ \E p \in PhotoIds : UploadPhoto(p)
    \/ \E p \in PhotoIds : CreatePhotoDiagnosis(p)
    \/ \E p \in PhotoIds, f \in GenFaults : GenerateAndStore(p, f)
    \/ \E limit \in 0..MaxLimit :
          \/ BatchBackfill(limit, TRUE, <<>>)
          \/ \E plan \in [1..Min(limit, Len(diagnoses)) -> BatchFaults] :
                BatchBackfill(limit, FALSE, plan)

Spec == Init /\ [][Next]_vars

\* Calls of generate_and_store_embedding in sequence.
NextTwice ==
    \/ \E p \in PhotoIds : UploadPhoto(p)
    \/ \E p \in PhotoIds, f \in GenFaults : GenerateAgain(p, f)

SpecTwice == Init /\ [][NextTwice]_vars

(***************************************************************************)
(* Claims on embedding generation, calls executed one at a time.           *)
(***************************************************************************)

\* C1: after any sequence of generate_and_store_embedding calls and batch
\* backfill runs executed one at a time, with every downstream call free to
\* fail, the store holds at most one embedding for each photo.
C1_AtMostOneEmbedding == AtMostOneEmbeddingPerPhoto(embeddings)

\* A call found the embedding an earlier call stored and left it alone.
C1_Witness ==
    /\ ret.op = "generate"
    /\ ret.ok /\ ret.embeds = 0
    /\ EmbeddingCount(embeddings, ret.photo) = 1

TwoCallsSamePhoto ==
    /\ prev.op = "generate"
    /\ ret.op = "generate"
    /\ prev.photo = ret.photo

\* C4 as stated: two calls in sequence for the same (existing) photo invoke
\* embed_text at most once in total.
C4_EmbedAtMostOnce ==
    (TwoCallsSamePhoto /\ photos[ret.photo] # NoPhoto)
        => prev.embeds + ret.embeds <= 1

\* C4 amended: two calls in sequence for the same photo invoke embed_text at
\* most once in total unless the first call failed in its embedding call or
\* its insert; and after a first call that returned true the second call
\* makes no embedding call and returns true unless its own lookup fails.
C4_EmbedOnceUnlessFirstFailed ==
    TwoCallsSamePhoto =>
        /\ (prev.hit \notin {"embed", "insert"} => prev.embeds + ret.embeds <= 1)
        /\ (prev.ok => (ret.embeds = 0 /\ (ret.hit = "none" => ret.ok)))

\* The first call computed and stored, the second found the embedding.
C4_Witness ==
    /\ TwoCallsSamePhoto
    /\ prev.ok /\ prev.embeds = 1
    /\ ret.ok /\ ret.embeds = 0

Backfills == {"backfill1", "backfill2"}

\* Every photo uploaded and diagnosed once, nothing embedded yet.
InitDiagnosed ==
    /\ photos = [p \in PhotoIds |-> "analyzed"]
    /\ diagnoses = [p \in PhotoIds |->
                      [id |-> p, photo_id |-> p, user_id |-> Owner(p),
                       diagnosis_text |-> "diagnosis", confidence_score |-> NoNumber,
                       user_feedback_rating |-> NoNumber,
                       treatment_outcome |-> NULL, identified_issues |-> <<>>,
                       recommended_actions |-> <<>>, created_at |-> p]]
    /\ embeddings = <<>>
    /\ ret = NoRet
    /\ prev = NoRet
    /\ pc = IdleWorkers
    /\ loc = NoLocals

\* The worker is through with the current photo: the backfill moves to its
\* next row, a single call returns.
Advance(w) ==
    IF w \in Backfills /\ loc[w].i < loc[w].n
    THEN /\ pc' = [pc EXCEPT ![w] = "check318"]
         /\ loc' = [loc EXCEPT ![w].i = @ + 1]
    ELSE /\ pc' = [pc EXCEPT ![w] = "done"]
         /\ loc' = loc

\* Line 312: diagnoses = db.query(PhotoDiagnosis).limit(limit).all()
BackfillQuery(w, limit) ==
    /\ w \in Backfills
    /\ pc[w] = "idle"
    /\ LET n == Min(limit, Len(diagnoses))
       IN /\ loc' = [loc EXCEPT ![w].n = n, ![w].i = 1]
          /\ pc' = [pc EXCEPT ![w] = IF n >= 1 THEN "check318" ELSE "done"]
    /\ UNCHANGED <<photos, diagnoses, embeddings, ret, prev>>

\* Lines 318-321: the existence check of the loop.
BackfillCheck(w) ==
    /\ w \in Backfills
    /\ pc[w] = "check318"
    /\ LET d == diagnoses[loc[w].i]
       IN IF ~IsNone(get_embedding_by_photo_id(embeddings, d.photo_id))
          THEN Advance(w)
          ELSE /\ pc' = [pc EXCEPT ![w] = "check133"]
               /\ loc' = [loc EXCEPT ![w].photo = d.photo_id]
    /\ UNCHANGED <<photos, diagnoses, embeddings, ret, prev>>

\* ai_bot_chat lines 178-180: a diagnosis request reaches its
\* generate_and_store_embedding call for photo p.
LiveStart(p) ==
    /\ pc["live"] = "idle"
    /\ photos[p] # NoPhoto
    /\ pc' = [pc EXCEPT !["live"] = "check133"]
    /\ loc' = [loc EXCEPT !["live"].photo = p]
    /\ UNCHANGED <<photos, diagnoses, embeddings, ret, prev>>

\* Lines 133-136: the existence check of generate_and_store_embedding.
GenCheck(w) ==
    /\ pc[w] = "check133"
    /\ IF existing_embedding_found(embeddings, loc[w].photo)
       THEN Advance(w)
       ELSE /\ pc' = [pc EXCEPT ![w] = "embed"]
            /\ loc' = loc
    /\ UNCHANGED <<photos, diagnoses, embeddings, ret, prev>>

\* Line 142: embed_text returns, or raises and the call returns False.
GenEmbed(w) ==
    /\ pc[w] = "embed"
    /\ \/ /\ pc' = [pc EXCEPT ![w] = "insert"]
          /\ loc' = loc
       \/ Advance(w)
    /\ UNCHANGED <<photos, diagnoses, embeddings, ret, prev>>

\* Line 156: create_embedding commits the row, or raises and the call
\* returns False.
GenInsert(w) ==
    /\ pc[w] = "insert"
    /\ \/ LET data == EmbeddingCreate(loc[w].photo, Owner(loc[w].photo),
                                      embed_text(loc[w].photo), "metadata",
                                      create_embedding_metadata(loc[w].photo))
          IN /\ embeddings' = create_embedding(embeddings, data)
             /\ IF w \in Backfills /\ loc[w].i < loc[w].n
                THEN /\ pc' = [pc EXCEPT ![w] = "check318"]
                     /\ loc' = [loc EXCEPT ![w].i = @ + 1,
                                           ![w].inserted = @ \cup {loc[w].photo}]
                ELSE /\ pc' = [pc EXCEPT ![w] = "done"]
                     /\ loc' = [loc EXCEPT ![w].inserted = @ \cup {loc[w].photo}]
       \/ /\ Advance(w)
          /\ embeddings' = embeddings
    /\ UNCHANGED <<photos, diagnoses, ret, prev>>

\* One backfill run and one live diagnosis request.
NextLive ==
    \/ \E limit \in 1..MaxLimit : BackfillQuery("backfill1", limit)
    \/ BackfillCheck("backfill1")
    \/ \E p \in PhotoIds : LiveStart(p)
    \/ \E w \in {"backfill1", "live"} : GenCheck(w)
    \/ \E w \in {"backfill1", "live"} : GenEmbed(w)
    \/ \E w \in {"backfill1", "live"} : GenInsert(w)

SpecLive == InitDiagnosed /\ [][NextLive]_vars

\* Two backfill runs.
NextBackfills ==
    \/ \E w \in Backfills, limit \in 1..MaxLimit : BackfillQuery(w, limit)
    \/ \E w \in Backfills : BackfillCheck(w)
    \/ \E w \in Backfills : GenCheck(w)
    \/ \E w \in Backfills : GenEmbed(w)
    \/ \E w \in Backfills : GenInsert(w)

SpecBackfills == InitDiagnosed /\ [][NextBackfills]_vars

\* C2: under every interleaving of one backfill run with a live
\* generate_and_store_embedding call, the store holds at most one embedding
\* for each photo.
C2_LiveBackfillAtMostOne == AtMostOneEmbeddingPerPhoto(embeddings)

\* C3: two backfill runs are not coordinated: once both have inserted an
\* embedding for the same photo - each passed the existence checks before
\* the other's insert - the store holds two embeddings for that photo.
C3_BackfillsEmbedTwice ==
    \A p \in PhotoIds :
        (p \in loc["backfill1"].inserted /\ p \in loc["backfill2"].inserted)
            => EmbeddingCount(embeddings, p) = 2

\* Both runs have inserted for one photo and the store holds both rows.
C3_Witness ==
    \E p \in PhotoIds :
        /\ p \in loc["backfill1"].inserted
        /\ p \in loc["backfill2"].inserted
        /\ EmbeddingCount(embeddings, p) = 2

(***************************************************************************)
(* Similarity search: find_similar_embeddings (the store query) and        *)
(* find_similar_cases_by_text_similarity.                                  *)
(***************************************************************************)
SimilarityThreshold == 700

NoUser == 0
Species == {NoSpecies, "monstera"}

\* A mutant of Eligible: the excluded user is not filtered out.
Eligible_any_user(store, target, exclude_user_id, threshold) ==
    {i \in 1..Len(store) :
        /\ store[i].embedding_vector # <<>>
        /\ (threshold > 0 =>
               /\ Norm(store[i].embedding_vector) # 0
               /\ Norm(target) # 0
               /\ RawCosine(store[i].embedding_vector, target) >= threshold)}

\* Rows the query of find_similar_embeddings keeps: a vector is present, the
\* user is not the excluded one ("if exclude_user_id"), and the raw cosine
\* is at least the threshold ("if similarity_threshold > 0").
Eligible(store, target, exclude_user_id, threshold) ==
    {i \in 1..Len(store) :
        /\ store[i].embedding_vector # <<>>
        /\ (exclude_user_id # NoUser => store[i].user_id # exclude_user_id)
        /\ (threshold > 0 =>
               /\ Norm(store[i].embedding_vector) # 0
               /\ Norm(target) # 0
               /\ RawCosine(store[i].embedding_vector, target) >= threshold)}

\* ORDER BY similarity DESC LIMIT k over the rows el: every order the
\* database may give (rows of equal similarity come in any order).
RECURSIVE ordered_picks(_, _, _, _)
ordered_picks(store, target, el, k) ==
    IF k = 0 \/ el = {}
    THEN {<<>>}
    ELSE LET sim(i) == RawCosine(store[i].embedding_vector, target)
             best == {i \in el : \A j \in el : sim(i) >= sim(j)}
         IN UNION {{<<store[i]>> \o rest :
                       rest \in ordered_picks(store, target, el \ {i}, k - 1)} :
                   i \in best}

\* find_similar_embeddings: the set of results the query may return.
find_similar_embeddings(store, target, limit, exclude_user_id, threshold) ==
    ordered_picks(store, target,
                  Eligible(store, target, exclude_user_id, threshold), limit)

\* A mutant of metadata_attribute: the filter reads the metadata_info column.
metadata_from_column(row) == row.metadata_info

\* The attribute "metadata" of a PhotoEmbedding row.  The column is named
\* metadata_info; "metadata" is the MetaData registry every declarative class
\* inherits from Base: an object that is truthy and has no get method.
metadata_attribute(row) == [kind |-> "MetaData"]

has_get(m) == m.kind = "dict"

\* Truth value of a metadata value: None is falsy, the registry and a dict
\* with keys are truthy.
truthy(m) == m.kind # "None"

\* "plant_species.lower() not in record_species" on the species names of the
\* model: a stored species contains the queried one when it is that name.
species_contains(m, plant_species) == m.plant_species = plant_species

\* A mutant of sort_by_similarity: reverse=True forgotten.
RECURSIVE sort_ascending(_)
sort_ascending(cases) ==
    IF cases = <<>> THEN <<>>
    ELSE LET t == sort_ascending(SubSeq(cases, 1, Len(cases) - 1))
             x == cases[Len(cases)]
             k == Cardinality({i \in 1..Len(t) : t[i].similarity_score <= x.similarity_score})
         IN SubSeq(t, 1, k) \o <<x>> \o SubSeq(t, k + 1, Len(t))

\* similar_cases.sort(key=similarity_score, reverse=True): a stable sort,
\* cases of equal score keep their order.
RECURSIVE sort_by_similarity(_)
sort_by_similarity(cases) ==
    IF cases = <<>> THEN <<>>
    ELSE LET t == sort_by_similarity(SubSeq(cases, 1, Len(cases) - 1))
             x == cases[Len(cases)]
             k == Cardinality({i \in 1..Len(t) : t[i].similarity_score >= x.similarity_score})
         IN SubSeq(t, 1, k) \o <<x>> \o SubSeq(t, k + 1, Len(t))

FindFaults == {"none", "embed", "query", "process"}

\* Line 221: the number of candidates find_similar_cases_by_text_similarity
\* asks the store for.
candidate_limit(limit) == limit * 2

\* The loop over the candidates, lines 226-246.  hit: what raised.
RECURSIVE candidate_loop(_, _, _, _, _, _)
candidate_loop(cands, i, query, plant_species, fault, acc) ==
    IF i > Len(cands)
    THEN [hit |-> "none", cases |-> acc]
    ELSE
      LET row == cands[i]
      IN IF fault = "process"
         THEN [hit |-> "process", cases |-> <<>>]
         ELSE IF row.embedding_vector = <<>>
         THEN candidate_loop(cands, i + 1, query, plant_species, fault, acc)
         ELSE IF plant_species # NoSpecies /\ truthy(metadata_attribute(row))
                 /\ ~has_get(metadata_attribute(row))
         THEN [hit |-> "metadata", cases |-> <<>>]
         ELSE IF plant_species # NoSpecies /\ truthy(metadata_attribute(row))
                 /\ ~species_contains(metadata_attribute(row), plant_species)
         THEN candidate_loop(cands, i + 1, query, plant_species, fault, acc)
         ELSE candidate_loop(cands, i + 1, query, plant_species, fault,
                  Append(acc, [embedding_id |-> row.id, photo_id |-> row.photo_id,
                               user_id |-> row.user_id,
                               similarity_score |->
                                   calculate_cosine_similarity(query, row.embedding_vector),
                               metadata |-> metadata_attribute(row)]))

\* The try block of find_similar_cases_by_text_similarity; cands is the
\* result the store query gave for limit * 2.
find_similar_body(cands, query, plant_species, limit, fault) ==
    IF fault \in {"embed", "query"}
    THEN [hit |-> fault, cases |-> <<>>]
    ELSE LET sorted(r) ==
                 IF r.hit # "none" THEN r
                 ELSE [hit |-> "none", cases |-> Take(sort_by_similarity(r.cases), limit)]
         IN sorted(candidate_loop(cands, 1, query, plant_species, fault, <<>>))

\* A mutant of find_similar_cases_by_text_similarity: no except clause.
find_similar_unguarded(cands, query, plant_species, limit, fault) ==
    LET propagate(b) == [raised |-> b.hit # "none", hit |-> b.hit, cases |-> b.cases]
    IN propagate(find_similar_body(cands, query, plant_species, limit, fault))

\* find_similar_cases_by_text_similarity: "except Exception: return []".
find_similar_cases_by_text_similarity(cands, query, plant_species, limit, fault) ==
    LET except(b) == [raised |-> FALSE, hit |-> b.hit,
                      cases |-> IF b.hit # "none" THEN <<>> ELSE b.cases]
    IN except(find_similar_body(cands, query, plant_species, limit, fault))

\* Any store of at most MaxEmb embeddings: row i belongs to photo 1 or 2 in
\* turn (a photo may hold several rows: concurrent runs insert duplicates)
\* and to the owner of that photo; the vectors are drawn freely.
DrawnEmbeddings == UNION {[1..n -> StoreVectors] : n \in 0..MaxEmb}

EmbeddingRows(drawn) ==
    [i \in 1..Len(drawn) |->
        LET p == IF i % 2 = 1 THEN 1 ELSE 2
        IN [id |-> i, photo_id |-> p, user_id |-> Owner(p),
            embedding_vector |-> drawn[i], metadata_info |-> NoneValue]]

InitFind ==
    /\ photos = [p \in PhotoIds |-> "pending"]
    /\ diagnoses = <<>>
    /\ embeddings \in {EmbeddingRows(d) : d \in DrawnEmbeddings}
    /\ ret = NoRet
    /\ prev = NoRet
    /\ pc = IdleWorkers
    /\ loc = NoLocals

\* One call of find_similar_cases_by_text_similarity.  The query text is
\* represented by the vector embed_text gives for it.
FindSimilar(query, exclude_user_id, plant_species, limit, fault) ==
    /\ ret = NoRet
    /\ \E cands \in find_similar_embeddings(embeddings, query, candidate_limit(limit),
                                            exclude_user_id, SimilarityThreshold) :
          LET r == find_similar_cases_by_text_similarity(
                       cands, query, plant_species, limit, fault)
          IN ret' = [op |-> "find", limit |-> limit, species |-> plant_species,
                     query |-> query, exclude |-> exclude_user_id, fault |-> fault,
                     raised |-> r.raised, hit |-> r.hit, cases |-> r.cases,
                     candidates |-> Len(cands), found |-> cands]
    /\ UNCHANGED <<photos, diagnoses, embeddings, prev, pc, loc>>

NextFind ==
    \E query \in QueryVectors, exclude_user_id \in Users \cup {NoUser},
       plant_species \in Species, limit \in 0..MaxLimit, fault \in FindFaults :
        FindSimilar(query, exclude_user_id, plant_species, limit, fault)

SpecFind == InitFind /\ [][NextFind]_vars

NonIncreasing(cases) ==
    \A i, j \in 1..Len(cases) :
        i < j => cases[i].similarity_score >= cases[j].similarity_score

\* C9: for every store content, query and limit,
\* find_similar_cases_by_text_similarity returns at most limit cases, in
\* non-increasing order of similarity score.
C9_AtMostLimitSorted ==
    ret.op = "find" => (Len(ret.cases) <= ret.limit /\ NonIncreasing(ret.cases))

\* The store offered more candidates than the limit; the call returned
\* limit cases of different scores.
C9_Witness ==
    /\ ret.op = "find"
    /\ ret.limit = 2 /\ ret.candidates > 2 /\ Len(ret.cases) = 2
    /\ ret.cases[1].similarity_score > ret.cases[2].similarity_score

\* C10: find_similar_cases_by_text_similarity never raises; it returns the
\* empty list when the store holds no embedding, when the query embedding
\* call fails, and when the store query or the processing of a candidate
\* fails.
C10_FindNeverRaises ==
    ret.op = "find" =>
        /\ ~ret.raised
        /\ ((embeddings = <<>> \/ ret.hit # "none") => ret.cases = <<>>)

\* The processing of a candidate failed on a store that has candidates.
C10_Witness ==
    /\ ret.op = "find"
    /\ ret.hit = "process" /\ ret.candidates > 0
    /\ ret.cases = <<>> /\ ~ret.raised

(***************************************************************************)
(* The RAG context builder, context_builder.py.  A Python dict is a        *)
(* function from its keys; the keys of d are DOMAIN d.                     *)
(***************************************************************************)
SuccessfulCasesLimit == 10
UserHistoryLimit == 20
InsightCasesLimit == 20

EmptyDict == [k \in {} |-> 0]

ContextKeys == {"similar_cases", "successful_treatments", "user_history_patterns",
                "plant_specific_insights", "context_metadata"}

\* get_successful_diagnoses_for_rag: outcome successful and, "if
\* plant_species", the plant of the photo is of that species.  (The order,
\* by confidence score, is not modelled: rows come in table order.)
get_successful_diagnoses_for_rag(diags, plant_species, limit) ==
    Take(SelectSeq(diags, LAMBDA d :
            /\ d.treatment_outcome = "successful"
            /\ (plant_species # NoSpecies => PlantSpecies(d.photo_id) = plant_species)),
         limit)

Reverse(s) == [i \in 1..Len(s) |-> s[Len(s) + 1 - i]]

\* get_user_diagnoses_history: the user's diagnoses, latest first.
get_user_diagnoses_history(diags, user_id, limit) ==
    Take(Reverse(SelectSeq(diags, LAMBDA d : d.user_id = user_id)), limit)

\* get_diagnosis_by_photo_id: the latest diagnosis of the photo, or None.
get_diagnosis_by_photo_id(diags, photo_id, user_id) ==
    LET hits == {i \in 1..Len(diags) : diags[i].photo_id = photo_id /\ diags[i].user_id = user_id}
    IN IF hits = {} THEN NoRow
       ELSE diags[CHOOSE i \in hits : \A j \in hits : i >= j]

\* process_similar_cases: each case in its own try/except.  A case is
\* skipped when it has no diagnosis, when the diagnosis lookup raises
\* (fault "case_lookup") and when extract_plant_context_from_metadata
\* calls .get on a metadata value that has none.
RECURSIVE process_similar_cases(_, _, _, _)
process_similar_cases(diags, cases, i, fault) ==
    IF i > Len(cases) THEN <<>>
    ELSE LET case == cases[i]
             rest == process_similar_cases(diags, cases, i + 1, fault)
             diagnosis == get_diagnosis_by_photo_id(diags, case.photo_id, case.user_id)
         IN IF fault = "case_lookup" THEN rest
            ELSE IF IsNone(diagnosis) THEN rest
            ELSE IF ~has_get(case.metadata) THEN rest
            ELSE <<[similarity_score |-> case.similarity_score,
                    treatment_outcome |-> diagnosis.treatment_outcome]>> \o rest

\* process_successful_cases: one entry for each successful diagnosis.
process_successful_cases(successful) ==
    [i \in 1..Len(successful) |-> [diagnosis_id |-> successful[i].id]]

\* A mutant of SuccessfulCount: partial successes are counted too.
SuccessfulCount_with_partial(ds) ==
    Cardinality({i \in 1..Len(ds) :
        ds[i].treatment_outcome \in {"successful", "partially_successful"}})

\* Line 210: the number of diagnoses whose outcome is SUCCESSFUL.
SuccessfulCount(ds) ==
    Cardinality({i \in 1..Len(ds) : ds[i].treatment_outcome = "successful"})

\* A Python dict of counts, in insertion order: a sequence of entries
\* [key, count].  all_issues[key] = all_issues.get(key, 0) + 1.
increment(counts, key) ==
    IF \E i \in 1..Len(counts) : counts[i].key = key
    THEN [i \in 1..Len(counts) |->
             IF counts[i].key = key
             THEN [key |-> key, count |-> counts[i].count + 1]
             ELSE counts[i]]
    ELSE Append(counts, [key |-> key, count |-> 1])

\* The inner loops of lines 186-189 and 193-196 over the keys of one diagnosis.
RECURSIVE count_keys(_, _, _)
count_keys(counts, keys, i) ==
    IF i > Len(keys) THEN counts
    ELSE count_keys(increment(counts, keys[i]), keys, i + 1)

\* The loop of line 183 for all_issues.  identified_issues of a row is the
\* sequence of its "category:issue" keys in iteration order, empty for None.
RECURSIVE count_issues(_, _, _)
count_issues(counts, ds, i) ==
    IF i > Len(ds) THEN counts
    ELSE count_issues(count_keys(counts, ds[i].identified_issues, 1), ds, i + 1)

\* The loop of line 183 for successful_treatments: the actions of the
\* successful diagnoses.
RECURSIVE count_treatments(_, _, _)
count_treatments(counts, ds, i) ==
    IF i > Len(ds) THEN counts
    ELSE count_treatments(
             IF ds[i].treatment_outcome = "successful"
             THEN count_keys(counts, ds[i].recommended_actions, 1)
             ELSE counts,
             ds, i + 1)

\* The loop of line 183 for plant_types: the species of the photo's plant.
RECURSIVE count_plant_types(_, _, _)
count_plant_types(counts, ds, i) ==
    IF i > Len(ds) THEN counts
    ELSE count_plant_types(
             IF PlantSpecies(ds[i].photo_id) # NoSpecies
             THEN increment(counts, PlantSpecies(ds[i].photo_id))
             ELSE counts,
             ds, i + 1)

\* sorted(items, key=count, reverse=True): stable, entries of equal count
\* keep their insertion order.
RECURSIVE sort_by_count(_)
sort_by_count(counts) ==
    IF counts = <<>> THEN <<>>
    ELSE LET place(t, x) ==
                 LET k == Cardinality({i \in 1..Len(t) : t[i].count >= x.count})
                 IN SubSeq(t, 1, k) \o <<x>> \o SubSeq(t, k + 1, Len(t))
         IN place(sort_by_count(SubSeq(counts, 1, Len(counts) - 1)),
                  counts[Len(counts)])

\* Line 214: [issue for issue, count in all_issues.items() if count > 1],
\* in the insertion order of all_issues.
recurring_issues(all_issues) ==
    LET I == {i \in 1..Len(all_issues) : all_issues[i].count > 1}
    IN [k \in 1..Cardinality(I) |->
           all_issues[CHOOSE i \in I : Cardinality({j \in I : j <= i}) = k].key]

\* A mutant of sort_by_created_at: the diagnoses are taken as given.
not_sorted(ds) == ds

\* sorted(diagnoses, key=created_at): stable, ascending.
RECURSIVE sort_by_created_at(_)
sort_by_created_at(ds) ==
    IF ds = <<>> THEN <<>>
    ELSE LET place(t, x) ==
                 LET k == Cardinality({i \in 1..Len(t) : t[i].created_at <= x.created_at})
                 IN SubSeq(t, 1, k) \o <<x>> \o SubSeq(t, k + 1, Len(t))
         IN place(sort_by_created_at(SubSeq(ds, 1, Len(ds) - 1)), ds[Len(ds)])

RECURSIVE SumSeq(_)
SumSeq(s) == IF s = <<>> THEN 0 ELSE s[1] + SumSeq(Tail(s))

\* calculate_diagnosis_frequency.  created_at is a whole number of days
\* (the column is not nullable), so every consecutive pair gives an
\* interval; averages are in thousandths of a day.
calculate_diagnosis_frequency(ds) ==
    IF Len(ds) < 2
    THEN [frequency |-> "insufficient_data"]
    ELSE
      LET classify(sorted_diagnoses) ==
              LET intervals == [i \in 1..(Len(sorted_diagnoses) - 1) |->
                                   sorted_diagnoses[i + 1].created_at
                                       - sorted_diagnoses[i].created_at]
                  total == SumSeq(intervals)
                  n == Len(intervals)
              IN [frequency |->
                      IF total < 7 * n THEN "very_frequent"
                      ELSE IF total < 30 * n THEN "frequent"
                      ELSE IF total < 90 * n THEN "regular"
                      ELSE "occasional",
                  average_days_between |-> (total * 1000) \div n,
                  total_diagnoses |-> Len(ds),
                  date_range_days |->
                      sorted_diagnoses[Len(sorted_diagnoses)].created_at
                          - sorted_diagnoses[1].created_at]
      IN classify(sort_by_created_at(ds))

\* A mutant of analyze_user_history_patterns: no early return for an empty
\* history.
analyze_without_early_return(user_diagnoses, fault) ==
    [hit |-> "none",
     val |-> [common_issues |-> <<>>, recurring_problems |-> <<>>,
              treatment_preferences |-> <<>>, success_rate |-> 0,
              plant_types_experience |-> <<>>, seasonal_patterns |-> <<>>,
              diagnosis_frequency |-> calculate_diagnosis_frequency(user_diagnoses)]]

\* analyze_user_history_patterns.  calculate_diagnosis_frequency (line 174)
\* runs before the try block and sorts the diagnoses when there are two or
\* more: fault "frequency" raises there.  Fault "analysis" raises inside the
\* loop of the try block, which records it under the key error of the
\* patterns and leaves the other keys at their initial values.  Dicts of
\* counts are sequences of entries; success_rate is in thousandths.
analyze_user_history_patterns(user_diagnoses, fault) ==
    IF user_diagnoses = <<>>
    THEN [hit |-> "none", val |-> EmptyDict]
    ELSE IF fault = "frequency" /\ Len(user_diagnoses) >= 2
    THEN [hit |-> "frequency", val |-> EmptyDict]
    ELSE IF fault = "analysis"
    THEN [hit |-> "none",
          val |-> [common_issues |-> <<>>, recurring_problems |-> <<>>,
                   treatment_preferences |-> <<>>, success_rate |-> 0,
                   plant_types_experience |-> <<>>, seasonal_patterns |-> <<>>,
                   diagnosis_frequency |-> calculate_diagnosis_frequency(user_diagnoses),
                   error |-> "analysis"]]
    ELSE
      LET process(all_issues) ==
              [hit |-> "none",
               val |-> [common_issues |-> Take(sort_by_count(all_issues), 10),
                        recurring_problems |-> Take(recurring_issues(all_issues), 5),
                        treatment_preferences |->
                            Take(sort_by_count(count_treatments(<<>>, user_diagnoses, 1)), 5),
                        success_rate |->
                            (SuccessfulCount(user_diagnoses) * 1000) \div Len(user_diagnoses),
                        plant_types_experience |->
                            count_plant_types(<<>>, user_diagnoses, 1),
                        seasonal_patterns |-> <<>>,
                        diagnosis_frequency |->
                            calculate_diagnosis_frequency(user_diagnoses)]]
      IN process(count_issues(<<>>, user_diagnoses, 1))

\* get_plant_specific_insights: the whole body in try/except, the error is
\* returned under the key error of the insights.
get_plant_specific_insights(diags, plant_species, fault) ==
    IF fault = "insights"
    THEN [error |-> "insights", species |-> plant_species]
    ELSE LET successful_cases ==
                 get_successful_diagnoses_for_rag(diags, plant_species, InsightCasesLimit)
         IN IF successful_cases = <<>>
            THEN [message |-> "No historical data available"]
            ELSE [species |-> plant_species, total_cases |-> Len(successful_cases)]

\* Faults of one build: the three of the similarity search, and
\*   successful  - get_successful_diagnoses_for_rag at line 45 raises
\*   history     - get_user_diagnoses_history at line 50 raises
\*   case_lookup - get_diagnosis_by_photo_id raises in process_similar_cases
\*   analysis, frequency - see analyze_user_history_patterns
\*   insights    - get_successful_diagnoses_for_rag at line 237 raises
BuildFaults == FindFaults \cup
    {"successful", "history", "case_lookup", "analysis", "frequency", "insights"}

\* A mutant of search_limit: three times max_similar_cases.
search_limit_tripled(max_similar_cases) == max_similar_cases * 3

\* Line 41: the limit build_rag_context_for_diagnosis gives the search.
search_limit(max_similar_cases) == max_similar_cases * 2

\* The try block of build_rag_context_for_diagnosis.  hit: the failure that
\* left the block as an exception ("none" when it returned); failed: every
\* stage that failed, caught by the stage itself or not; searched: the cases
\* the similarity search returned; cands: the result the store query gave
\* to the similarity search.
build_body(diags, cands, query, user_id, plant_species, max_similar_cases, fault) ==
    LET found(f) == IF f.hit # "none" THEN {f.hit} ELSE {}
        assemble(f, successful_cases, user_past_diagnoses, patterns, insights) ==
            IF patterns.hit # "none"
            THEN [hit |-> patterns.hit, failed |-> found(f) \cup {patterns.hit},
                  searched |-> f.cases, context |-> EmptyDict]
            ELSE [hit |-> "none", searched |-> f.cases,
                  failed |-> found(f)
                      \cup (IF "error" \in DOMAIN patterns.val THEN {"analysis"} ELSE {})
                      \cup (IF "error" \in DOMAIN insights THEN {"insights"} ELSE {}),
                  context |->
                     [similar_cases |->
                          process_similar_cases(
                              diags, Take(f.cases, max_similar_cases), 1, fault),
                      successful_treatments |-> process_successful_cases(successful_cases),
                      user_history_patterns |-> patterns.val,
                      plant_specific_insights |-> insights,
                      context_metadata |->
                         [total_similar_cases |-> Len(f.cases),
                          successful_cases_available |-> Len(successful_cases),
                          user_history_length |-> Len(user_past_diagnoses),
                          plant_species |-> plant_species]]]
        fetch(f, user_past_diagnoses) ==
            IF fault \in {"successful", "history"}
            THEN [hit |-> fault, failed |-> found(f) \cup {fault},
                  searched |-> f.cases, context |-> EmptyDict]
            ELSE assemble(f,
                     get_successful_diagnoses_for_rag(diags, plant_species,
                                                      SuccessfulCasesLimit),
                     user_past_diagnoses,
                     analyze_user_history_patterns(user_past_diagnoses, fault),
                     IF plant_species # NoSpecies
                     THEN get_plant_specific_insights(diags, plant_species, fault)
                     ELSE EmptyDict)
    IN fetch(find_similar_cases_by_text_similarity(
                 cands, query, plant_species, search_limit(max_similar_cases),
                 IF fault \in FindFaults THEN fault ELSE "none"),
             get_user_diagnoses_history(diags, user_id, UserHistoryLimit))

\* A mutant of build_rag_context_for_diagnosis: no except clause.
build_unguarded(diags, cands, query, user_id, plant_species, max_similar_cases, fault) ==
    LET propagate(b) == [raised |-> b.hit # "none", hit |-> b.hit,
                         failed |-> b.failed, searched |-> b.searched,
                         context |-> b.context]
    IN propagate(build_body(diags, cands, query, user_id, plant_species,
                            max_similar_cases, fault))

\* build_rag_context_for_diagnosis: "except Exception" returns the five keys
\* with empty values and the error under context_metadata.
build_rag_context_for_diagnosis(diags, cands, query, user_id, plant_species, max_similar_cases, fault) ==
    LET except(b) ==
            [raised |-> FALSE, hit |-> b.hit, failed |-> b.failed,
             searched |-> b.searched,
             context |->
                IF b.hit # "none"
                THEN [similar_cases |-> <<>>, successful_treatments |-> <<>>,
                      user_history_patterns |-> EmptyDict,
                      plant_specific_insights |-> EmptyDict,
                      context_metadata |-> [error |-> b.hit]]
                ELSE b.context]
    IN except(build_body(diags, cands, query, user_id, plant_species,
                         max_similar_cases, fault))

(***************************************************************************)
(* analyze_plant_photo_with_rag, ai_bot_chat.py lines 118-221.             *)
(***************************************************************************)
MaxSimilarCases == 5

\* Parameters of the two functions the entry point calls with keywords,
\* and the keywords of the calls at lines 155 and 207-212.
get_user_input_history_params == {"db", "user_id"}
get_user_input_history_keywords == {"limit"}
ask_gpt4o_params == {"user_prompt", "system_prompt", "image_path", "max_tokens"}
ask_gpt4o_keywords == {"prompt", "system_prompt"}

\* Python raises TypeError on a keyword that is no parameter.
accepts_keywords(params, keywords) == keywords \subseteq params

\* The image file of the photo on disk when the request arrives.
Files == {"ok", "missing", "too_large"}

\* Faults of the entry point's own calls:
\*   validate   - get_photo_by_id raises in validate_photo_for_chat
\*   context    - get_photo_context_for_chat raises
\*   vision     - analyze_plant_image_with_gpt4_vision raises
\*   completion - the completion request of ask_gpt4o raises
AnalyzeFaults == {"none", "validate", "context", "vision", "completion"}

\* The try block.  hit: the exception that left it ("none" when it
\* returned); kind: the response returned; store: the embeddings after it.
analyze_body(store, ph, diags, cands, user_id, photo_id, file, fault, bfault, gfault) ==
    LET out(hit, kind, st) == [hit |-> hit, kind |-> kind, store |-> st]
        \* Lines 184-217, after the embedding was stored or not.
        complete(g) ==
            IF ~accepts_keywords(ask_gpt4o_params, ask_gpt4o_keywords)
            THEN out("TypeError207", "none", g.store)
            ELSE IF fault = "completion" THEN out("completion", "none", g.store)
            ELSE out("none", "diagnosis", g.store)
        \* Lines 159-182, after the context was built.
        diagnose(rag) ==
            IF rag.raised THEN out("build", "none", store)
            ELSE IF fault = "vision" THEN out("vision", "none", store)
            ELSE complete(generate_and_store_embedding(
                              store, ph, photo_id, user_id, gfault))
    IN IF fault = "validate" THEN out("validate", "none", store)
       ELSE IF ph[photo_id] = NoPhoto \/ Owner(photo_id) # user_id
       THEN out("none", "photo_error", store)
       ELSE IF file = "missing" THEN out("none", "photo_error", store)
       ELSE IF file = "too_large" THEN out("none", "image_error", store)
       ELSE IF fault = "context" THEN out("context", "none", store)
       ELSE IF ~accepts_keywords(get_user_input_history_params,
                                 get_user_input_history_keywords)
       THEN out("TypeError155", "none", store)
       ELSE diagnose(build_rag_context_for_diagnosis(
                         diags, cands, embed_text(photo_id), user_id,
                         PlantSpecies(photo_id), MaxSimilarCases, bfault))

\* A mutant of analyze_plant_photo_with_rag: no except clause.
analyze_unguarded(store, ph, diags, cands, user_id, photo_id, file, fault, bfault, gfault) ==
    LET propagate(b) == [raised |-> b.hit # "none", hit |-> b.hit,
                         kind |-> b.kind, store |-> b.store]
    IN propagate(analyze_body(store, ph, diags, cands, user_id, photo_id, file,
                              fault, bfault, gfault))

\* analyze_plant_photo_with_rag: "except Exception" returns the
\* "Photo Analysis Failed" response.
analyze_plant_photo_with_rag(store, ph, diags, cands, user_id, photo_id, file, fault, bfault, gfault) ==
    LET except(b) == [raised |-> FALSE, hit |-> b.hit,
                      kind |-> IF b.hit # "none" THEN "analysis_failed" ELSE b.kind,
                      store |-> b.store]
    IN except(analyze_body(store, ph, diags, cands, user_id, photo_id, file,
                           fault, bfault, gfault))

(***************************************************************************)
(* Requests against any small store: up to MaxDiag diagnoses (a photo may  *)
(* be diagnosed again), at most one embedding for each photo.              *)
(***************************************************************************)
Outcomes == {NULL, "successful"}

DrawnDiagnoses == UNION {[1..n -> PhotoIds \X Outcomes] : n \in 0..MaxDiag}

DiagnosisRows(drawn) ==
    [i \in 1..Len(drawn) |->
        [id |-> i, photo_id |-> drawn[i][1], user_id |-> Owner(drawn[i][1]),
         diagnosis_text |-> "diagnosis", confidence_score |-> NoNumber,
         user_feedback_rating |-> NoNumber,
         treatment_outcome |-> drawn[i][2], identified_issues |-> <<>>,
         recommended_actions |-> <<>>, created_at |-> i]]

\* The embeddings generate_and_store_embedding has stored for the photos E.
EmbeddedPhotos(E) ==
    LET data(p) == EmbeddingCreate(p, Owner(p), embed_text(p), "metadata",
                                   create_embedding_metadata(p))
    IN IF E = {} THEN <<>>
       ELSE IF E = {1} THEN create_embedding(<<>>, data(1))
       ELSE IF E = {2} THEN create_embedding(<<>>, data(2))
       ELSE create_embedding(create_embedding(<<>>, data(1)), data(2))

InitRag ==
    /\ diagnoses \in {DiagnosisRows(d) : d \in DrawnDiagnoses}
    /\ embeddings \in {EmbeddedPhotos(E) : E \in SUBSET PhotoIds}
    /\ photos \in [PhotoIds -> {NoPhoto, "pending", "analyzed"}]
    /\ \A p \in PhotoIds :
          /\ photos[p] = "analyzed" <=> \E i \in 1..Len(diagnoses) : diagnoses[i].photo_id = p
          /\ EmbeddingCount(embeddings, p) > 0 => photos[p] # NoPhoto
    /\ ret = NoRet
    /\ prev = NoRet
    /\ pc = IdleWorkers
    /\ loc = NoLocals

\* One call of build_rag_context_for_diagnosis.
BuildContext(query, user_id, plant_species, max_similar_cases, fault) ==
    /\ ret = NoRet
    /\ \E cands \in find_similar_embeddings(
                         embeddings, query,
                         candidate_limit(search_limit(max_similar_cases)),
                         user_id, SimilarityThreshold) :
          LET r == build_rag_context_for_diagnosis(
                       diagnoses, cands, query, user_id, plant_species,
                       max_similar_cases, fault)
          IN ret' = [op |-> "build", user |-> user_id, species |-> plant_species,
                     max |-> max_similar_cases,
                     requested |-> candidate_limit(search_limit(max_similar_cases)),
                     fault |-> fault, candidates |-> Len(cands),
                     searched |-> r.searched,
                     raised |-> r.raised, hit |-> r.hit, failed |-> r.failed,
                     context |-> r.context]
    /\ UNCHANGED <<photos, diagnoses, embeddings, prev, pc, loc>>

\* One photo diagnosis request, from start to return.
AnalyzePhoto(user_id, photo_id, file, fault, bfault, gfault) ==
    /\ ret = NoRet
    /\ \E cands \in find_similar_embeddings(embeddings, embed_text(photo_id),
                                            candidate_limit(search_limit(MaxSimilarCases)),
                                            user_id, SimilarityThreshold) :
          LET a == analyze_plant_photo_with_rag(
                       embeddings, photos, diagnoses, cands, user_id, photo_id, file,
                       fault, bfault, gfault)
          IN /\ embeddings' = a.store
             /\ ret' = [op |-> "analyze", user |-> user_id, photo |-> photo_id,
                        file |-> file, fault |-> fault, bfault |-> bfault,
                        gfault |-> gfault, raised |-> a.raised, hit |-> a.hit,
                        kind |-> a.kind]
    /\ UNCHANGED <<photos, diagnoses, prev, pc, loc>>

\* The faults of one request: one of the entry point's own calls fails, or
\* the RAG enrichment fails (the context build, the embedding storage, or
\* both).
AnalyzeFaultPlans ==
    {<<f, "none", "none">> : f \in AnalyzeFaults}
        \cup {<<"none", b, g>> : b \in BuildFaults, g \in GenFaults}

NextRag ==
    \/ /\ ret = NoRet
       /\ \E query \in QueryVectors, user_id \in Users, plant_species \in Species,
             max_similar_cases \in 0..MaxLimit, fault \in BuildFaults :
             BuildContext(query, user_id, plant_species, max_similar_cases, fault)
    \/ /\ ret = NoRet
       /\ \E user_id \in Users, photo_id \in PhotoIds, file \in Files,
             plan \in AnalyzeFaultPlans :
             AnalyzePhoto(user_id, photo_id, file, plan[1], plan[2], plan[3])

SpecRag == InitRag /\ [][NextRag]_vars

(***************************************************************************)
(* Claims on the context builder and the photo diagnosis entry point.      *)
(***************************************************************************)
ErrorInMetadata == "error" \in DOMAIN ret.context.context_metadata

\* The diagnoses the store holds for the user of the request.
HistoryLength == Len(SelectSeq(diagnoses, LAMBDA d : d.user_id = ret.user))

\* The stages the claim names: query embedding and similar-case search,
\* successful-case fetch, user-history fetch and analysis, species insights.
ClaimStages == {"embed", "query", "process", "metadata", "successful", "history",
                "analysis", "frequency", "insights"}

\* C6 as stated: build_rag_context_for_diagnosis never raises, returns the
\* five context keys, and whenever one of its stages failed the returned
\* context_metadata carries an error field.
C6_ErrorFieldOnAnyFailure ==
    ret.op = "build" =>
        /\ ~ret.raised
        /\ DOMAIN ret.context = ContextKeys
        /\ (ret.failed \cap ClaimStages # {} => ErrorInMetadata)

\* C6 amended: build_rag_context_for_diagnosis never raises and returns the
\* five context keys; context_metadata carries an error field exactly when
\* the successful-case fetch, the user-history fetch or the frequency
\* computation over a history of two or more diagnoses failed.  A failed
\* query embedding or store query leaves similar_cases empty without an
\* error field; a failed history analysis or species-insight computation is
\* reported under the error key of user_history_patterns or of
\* plant_specific_insights.
C6_ErrorFieldWhenHandlerReached ==
    ret.op = "build" =>
        /\ ~ret.raised
        /\ DOMAIN ret.context = ContextKeys
        /\ ErrorInMetadata <=>
              \/ ret.fault \in {"successful", "history"}
              \/ ret.fault = "frequency" /\ HistoryLength >= 2
        /\ ret.fault \in {"embed", "query"} =>
              /\ ret.context.similar_cases = <<>>
              /\ ret.context.context_metadata.total_similar_cases = 0
        /\ (ret.fault = "analysis" /\ HistoryLength >= 1) =>
              "error" \in DOMAIN ret.context.user_history_patterns
        /\ (ret.fault = "insights" /\ ret.species # NoSpecies) =>
              "error" \in DOMAIN ret.context.plant_specific_insights

\* The store query failed although the store had candidates: the context
\* came back with no similar case and no error field.
C6_Witness ==
    /\ ret.op = "build"
    /\ ret.fault = "query" /\ ret.candidates > 0
    /\ ret.context.similar_cases = <<>>
    /\ ~ErrorInMetadata

ResponseKinds == {"photo_error", "image_error", "analysis_failed", "diagnosis"}

\* C7: analyze_plant_photo_with_rag never raises and always returns a
\* response, whichever of its calls fails.
C7_AlwaysResponds ==
    ret.op = "analyze" => (~ret.raised /\ ret.kind \in ResponseKinds)

\* The request passed both validations, a later call raised, and the
\* analysis-failed response came back.
C7_Witness ==
    /\ ret.op = "analyze"
    /\ photos[ret.photo] # NoPhoto /\ Owner(ret.photo) = ret.user /\ ret.file = "ok"
    /\ ret.hit # "none"
    /\ ~ret.raised /\ ret.kind = "analysis_failed"

\* C8: when photo validation, the vision analysis and the completion call
\* succeed, analyze_plant_photo_with_rag returns the diagnosis response,
\* whether or not the context build or the embedding storage fails.
C8_RagAdditive ==
    ( /\ ret.op = "analyze"
      /\ photos[ret.photo] # NoPhoto /\ Owner(ret.photo) = ret.user /\ ret.file = "ok"
      /\ ret.fault = "none" )
        => ret.kind = "diagnosis"

(***************************************************************************)
(* Claims on the similarity search.                                        *)
(***************************************************************************)
\* The similarity the store applies its threshold to, for row i of the store.
StoredSimilarity(i) == RawCosine(embeddings[i].embedding_vector, ret.query)

\* The stored embeddings eligible for the call in ret: not of the excluded
\* user, of the queried species (the species create_embedding_metadata
\* builds for the photo of the embedding) and at or above the threshold.
EligibleRows ==
    {i \in 1..Len(embeddings) :
        /\ (ret.exclude # NoUser => embeddings[i].user_id # ret.exclude)
        /\ (ret.species # NoSpecies =>
               PlantSpecies(embeddings[i].photo_id) = ret.species)
        /\ StoredSimilarity(i) >= SimilarityThreshold}

ReturnedRows ==
    {i \in 1..Len(embeddings) :
        \E k \in 1..Len(ret.cases) : ret.cases[k].embedding_id = embeddings[i].id}

\* C11: a call of find_similar_cases_by_text_similarity in which no service
\* fails returns limit cases when at least limit eligible embeddings are
\* stored, and no eligible embedding left out is more similar to the query
\* than one that was returned.
C11_TopKEligible ==
    (ret.op = "find" /\ ret.fault = "none") =>
        /\ Cardinality(EligibleRows) >= ret.limit => Len(ret.cases) = ret.limit
        /\ \A i \in EligibleRows \ ReturnedRows, j \in ReturnedRows :
              StoredSimilarity(i) <= StoredSimilarity(j)

\* Calls of the similarity search and of the context builder on any store
\* of at most MaxEmb embeddings.
NextSearch ==
    \/ /\ ret = NoRet
       /\ \E query \in QueryVectors, exclude_user_id \in Users \cup {NoUser},
             plant_species \in Species, limit \in 0..MaxLimit, fault \in FindFaults :
             FindSimilar(query, exclude_user_id, plant_species, limit, fault)
    \/ /\ ret = NoRet
       /\ \E query \in QueryVectors, user_id \in Users, plant_species \in Species,
             max_similar_cases \in 0..MaxLimit, fault \in BuildFaults :
             BuildContext(query, user_id, plant_species, max_similar_cases, fault)

SpecSearch == InitFind /\ [][NextSearch]_vars

\* C12: no case find_similar_cases_by_text_similarity returns belongs to the
\* excluded user, and no case the search returns to a context build for
\* user u belongs to u.
C12_ExcludedUserAbsent ==
    /\ (ret.op = "find" /\ ret.exclude # NoUser) =>
          \A k \in 1..Len(ret.cases) : ret.cases[k].user_id # ret.exclude
    /\ ret.op = "build" =>
          \A k \in 1..Len(ret.searched) : ret.searched[k].user_id # ret.user

\* The excluded user has a stored embedding above the threshold, and the
\* call returned cases of other users only.
C12_Witness ==
    /\ ret.op = "find" /\ ret.exclude # NoUser
    /\ \E i \in 1..Len(embeddings) :
          /\ embeddings[i].user_id = ret.exclude
          /\ StoredSimilarity(i) >= SimilarityThreshold
    /\ Len(ret.cases) >= 1

C14_ThresholdedScore ==
    (ret.op = "find" /\ ret.fault = "none" /\ Cardinality(EligibleRows) <= ret.limit) =>
        /\ ReturnedRows = EligibleRows
        /\ \A k \in 1..Len(ret.cases) :
              \E i \in 1..Len(embeddings) :
                  /\ embeddings[i].id = ret.cases[k].embedding_id
                  /\ ret.cases[k].similarity_score = StoredSimilarity(i)

\* C15: results are ordered by similarity descending and, among equal
\* similarities, in creation order (oldest row first), both in the rows the
\* store query returns and in the list the search returns.
C15_TiesOldestFirst ==
    (ret.op = "find" /\ ret.fault = "none") =>
        /\ \A k \in 1..(Len(ret.found) - 1) :
              LET a == RawCosine(ret.found[k].embedding_vector, ret.query)
                  b == RawCosine(ret.found[k + 1].embedding_vector, ret.query)
              IN a > b \/ (a = b /\ ret.found[k].id < ret.found[k + 1].id)
        /\ \A k \in 1..(Len(ret.cases) - 1) :
              \/ ret.cases[k].similarity_score > ret.cases[k + 1].similarity_score
              \/ /\ ret.cases[k].similarity_score = ret.cases[k + 1].similarity_score
                 /\ ret.cases[k].embedding_id < ret.cases[k + 1].embedding_id

\* C16 as stated: a context build with max_similar_cases = m requests at
\* most 2*m candidates from the store and puts at most m similar cases in
\* the context.
C16_StoreAskedAtMostTwice ==
    ret.op = "build" =>
        /\ ret.requested <= 2 * ret.max
        /\ Len(ret.context.similar_cases) <= ret.max

\* C16, amended: the build asks the search for at most 2*m cases, the search
\* asks the store for at most 4*m candidates, and at most m similar cases
\* end up in the context.
C16_PoolBounds ==
    ret.op = "build" =>
        /\ ret.requested <= 4 * ret.max
        /\ ret.candidates <= 4 * ret.max
        /\ Len(ret.searched) <= 2 * ret.max
        /\ Len(ret.context.similar_cases) <= ret.max

\* A build with m = 1: the store was asked for 4 candidates and the search
\* returned 2 cases.
C16_Witness ==
    /\ ret.op = "build" /\ ret.fault = "none" /\ ret.max = 1
    /\ ret.requested = 4
    /\ ret.candidates = 2
    /\ Len(ret.searched) = 2

(***************************************************************************)
(* The history analysis as a pure function of a user's diagnoses.          *)
(***************************************************************************)
\* TreatmentOutcome.
HistoryOutcomes == {"pending", "successful", "partially_successful", "failed"}

\* Creation days that put the gaps on both sides of 7, 30 and 90 days.
Days == {0, 6, 7, 30, 90}

\* "category:issue" keys.
IssueKeys == 1..MaxIssues

\* The issue keys one diagnosis lists: none, one, the last one, one twice,
\* or all of them.
IssueLists ==
    {<<>>, <<1>>, <<MaxIssues>>, <<1, 1>>, [k \in IssueKeys |-> k]}

HistoryRow(i, outcome, day, issues) ==
    [id |-> i, photo_id |-> 1, user_id |-> Owner(1),
     diagnosis_text |-> "diagnosis", confidence_score |-> NoNumber,
     user_feedback_rating |-> NoNumber,
     treatment_outcome |-> outcome, identified_issues |-> issues,
     recommended_actions |-> IF outcome = "failed" THEN <<>> ELSE <<1>>,
     created_at |-> day]

\* Histories of at most MaxHist diagnoses of one user: any outcomes, any
\* creation days in any order, or any issue lists.
Histories ==
    UNION {
        {[i \in 1..n |-> HistoryRow(i, f[i], i, <<>>)] : f \in [1..n -> HistoryOutcomes]}
        \cup {[i \in 1..n |-> HistoryRow(i, NULL, f[i], <<>>)] : f \in [1..n -> Days]}
        \cup {[i \in 1..n |-> HistoryRow(i, NULL, i, f[i])] : f \in [1..n -> IssueLists]}
        : n \in 0..MaxHist}

InitHistory ==
    /\ photos = [p \in PhotoIds |-> "analyzed"]
    /\ diagnoses \in Histories
    /\ embeddings = <<>>
    /\ ret = NoRet
    /\ prev = NoRet
    /\ pc = IdleWorkers
    /\ loc = NoLocals

\* analyze_user_history_patterns(user_diagnoses).
AnalyzeHistory(fault) ==
    /\ ret = NoRet
    /\ LET r == analyze_user_history_patterns(diagnoses, fault)
       IN ret' = [op |-> "analyze_history", fault |-> fault, hit |-> r.hit,
                  val |-> r.val]
    /\ UNCHANGED <<photos, diagnoses, embeddings, prev, pc, loc>>

\* calculate_diagnosis_frequency(diagnoses).
CalculateFrequency ==
    /\ ret = NoRet
    /\ ret' = [op |-> "frequency", val |-> calculate_diagnosis_frequency(diagnoses)]
    /\ UNCHANGED <<photos, diagnoses, embeddings, prev, pc, loc>>

NextHistory ==
    \/ \E fault \in {"none", "analysis", "frequency"} : AnalyzeHistory(fault)
    \/ CalculateFrequency

SpecHistory == InitHistory /\ [][NextHistory]_vars

IsSuccessful(d) == d.treatment_outcome = "successful"

\* C18: for a non-empty history, success_rate (in thousandths, rounded
\* down) is the number of successful diagnoses over the number of diagnoses.
C18_SuccessRate ==
    (ret.op = "analyze_history" /\ ret.fault = "none" /\ diagnoses # <<>>) =>
        LET n == Len(diagnoses)
            k == Len(SelectSeq(diagnoses, IsSuccessful))
        IN /\ ret.val.success_rate * n <= 1000 * k
           /\ 1000 * k < (ret.val.success_rate + 1) * n

\* Outcomes [successful, failed, successful, pending]: success_rate 0.5.
C18_Witness ==
    /\ ret.op = "analyze_history" /\ ret.fault = "none"
    /\ Len(diagnoses) = 4
    /\ [i \in 1..4 |-> diagnoses[i].treatment_outcome]
           = <<"successful", "failed", "successful", "pending">>
    /\ ret.val.success_rate = 500

\* Number of times the diagnoses list an issue key.
IssueCount(key) ==
    Cardinality({ij \in (1..Len(diagnoses)) \X (1..MaxIssues) :
        /\ ij[2] <= Len(diagnoses[ij[1]].identified_issues)
        /\ diagnoses[ij[1]].identified_issues[ij[2]] = key})

\* C19: recurring_problems holds only issues listed more than once, at most
\* 5 of them, and they are the top 5 by count: no issue left out that is
\* listed more than once has a strictly higher count than an included one.
C19_RecurringTopFive ==
    (ret.op = "analyze_history" /\ ret.fault = "none" /\ diagnoses # <<>>) =>
        LET included == Range(ret.val.recurring_problems)
        IN /\ \A key \in included : IssueCount(key) > 1
           /\ Len(ret.val.recurring_problems) <= 5
           /\ \A key \in IssueKeys \ included, r \in included :
                  IssueCount(key) > 1 => IssueCount(key) <= IssueCount(r)

FrequencyClass(span, gaps) ==
    IF span < 7 * gaps THEN "very_frequent"
    ELSE IF span < 30 * gaps THEN "frequent"
    ELSE IF span < 90 * gaps THEN "regular"
    ELSE "occasional"

\* C20: with fewer than 2 diagnoses the frequency is "insufficient_data";
\* otherwise it is the class of the average day gap between the diagnoses
\* taken in chronological order, whatever the order of the input: the gaps
\* add up to the days between the earliest and the latest diagnosis.
C20_FrequencyClass ==
    ret.op = "frequency" =>
        IF Len(diagnoses) < 2
        THEN ret.val.frequency = "insufficient_data"
        ELSE LET days == {diagnoses[i].created_at : i \in 1..Len(diagnoses)}
                 earliest == CHOOSE d \in days : \A e \in days : d <= e
                 latest == CHOOSE d \in days : \A e \in days : e <= d
             IN ret.val.frequency = FrequencyClass(latest - earliest, Len(diagnoses) - 1)

\* Diagnoses given out of order, on days 0, 90 and 6: gaps 6 and 84,
\* average 45 days.
C20_Witness ==
    /\ ret.op = "frequency"
    /\ Len(diagnoses) = 3
    /\ [i \in 1..3 |-> diagnoses[i].created_at] = <<0, 90, 6>>
    /\ ret.val.frequency = "regular"

(***************************************************************************)
(* format_rag_context_for_ai (context_builder).  The text is the sequence  *)
(* of the parts joined with newlines: a part is a section header or an     *)
(* item line; the header of the last two sections carries its items.       *)
(***************************************************************************)
Header(section, body) == [kind |-> "header", section |-> section, body |-> body]

Item(section, body) == [kind |-> "item", section |-> section, body |-> body]

Fallback ==
    <<[kind |-> "fallback", section |-> "none",
       body |-> "No relevant historical context available."]>>

\* rag_context.get(key, default) and user_patterns.get(key).
dict_get(d, key, default) == IF key \in DOMAIN d THEN d[key] ELSE default

\* A mutant of format_rag_context_for_ai: every header is emitted.
format_all_headers(rag_context) ==
    <<Header("SIMILAR HISTORICAL CASES", <<>>),
      Header("SUCCESSFUL TREATMENT PATTERNS", <<>>),
      Header("USER'S COMMON ISSUES", <<>>),
      Header("SPECIES-SPECIFIC TIPS", <<>>)>>

format_rag_context_for_ai(rag_context) ==
    LET join(context_parts) ==
            IF context_parts # <<>> THEN context_parts ELSE Fallback
        cases(similar_cases) ==
            IF similar_cases # <<>>
            THEN <<Header("SIMILAR HISTORICAL CASES", <<>>)>>
                 \o [i \in 1..Len(Take(similar_cases, 3)) |->
                        Item("SIMILAR HISTORICAL CASES",
                             <<i, dict_get(similar_cases[i], "similarity_score", 0),
                               dict_get(similar_cases[i], "treatment_outcome", "Unknown")>>)]
            ELSE <<>>
        treatments(successful_treatments) ==
            IF successful_treatments # <<>>
            THEN <<Header("SUCCESSFUL TREATMENT PATTERNS", <<>>)>>
                 \o [i \in 1..Len(Take(successful_treatments, 3)) |->
                        Item("SUCCESSFUL TREATMENT PATTERNS",
                             Take(dict_get(successful_treatments[i],
                                           "successful_treatments", <<>>), 2))]
            ELSE <<>>
        issues(common_issues) ==
            IF common_issues # <<>>
            THEN <<Header("USER'S COMMON ISSUES",
                          [i \in 1..Len(Take(common_issues, 3)) |-> common_issues[i].key])>>
            ELSE <<>>
        tips(care_tips) ==
            IF care_tips # <<>>
            THEN <<Header("SPECIES-SPECIFIC TIPS", Take(care_tips, 2))>>
            ELSE <<>>
    IN join(cases(dict_get(rag_context, "similar_cases", <<>>))
            \o treatments(dict_get(rag_context, "successful_treatments", <<>>))
            \o issues(dict_get(dict_get(rag_context, "user_history_patterns", EmptyDict),
                               "common_issues", <<>>))
            \o tips(dict_get(dict_get(rag_context, "plant_specific_insights", EmptyDict),
                             "care_tips", <<>>)))

\* Contexts with a, b similar and successful cases; c = 0: no history
\* patterns, else patterns with c - 1 common issues; d = 0: no insights,
\* else insights with d - 1 care tips.
DrawnContext(a, b, c, d) ==
    [similar_cases |->
         [i \in 1..a |-> [similarity_score |-> 900, treatment_outcome |-> "successful"]],
     successful_treatments |->
         [i \in 1..b |-> [successful_treatments |-> <<"water", "light", "soil">>]],
     user_history_patterns |->
         IF c = 0 THEN EmptyDict
         ELSE [common_issues |-> [i \in 1..(c - 1) |-> [key |-> i, count |-> 1]],
               success_rate |-> 0],
     plant_specific_insights |->
         IF d = 0 THEN EmptyDict
         ELSE [species |-> "monstera", care_tips |-> [i \in 1..(d - 1) |-> i]],
     context_metadata |-> [total_similar_cases |-> a]]

\* The context build_rag_context_for_diagnosis returns when a fetch fails.
DegradedContext ==
    build_rag_context_for_diagnosis(<<>>, <<>>, <<3, 4>>, 1, NoSpecies, 1,
                                    "successful").context

DrawnContexts ==
    {DrawnContext(a, b, c, d) : a \in 0..MaxItems, b \in 0..MaxItems,
                                c \in 0..MaxItems, d \in 0..MaxItems}
    \cup {DegradedContext}

\* prev holds the result of the context build that is formatted.
InitFormat ==
    /\ photos = [p \in PhotoIds |-> "pending"]
    /\ diagnoses = <<>>
    /\ embeddings = <<>>
    /\ ret = NoRet
    /\ prev \in {[op |-> "build", context |-> c] : c \in DrawnContexts}
    /\ pc = IdleWorkers
    /\ loc = NoLocals

FormatContext ==
    /\ ret = NoRet
    /\ ret' = [op |-> "format", text |-> format_rag_context_for_ai(prev.context)]
    /\ UNCHANGED <<photos, diagnoses, embeddings, prev, pc, loc>>

NextFormat == FormatContext

SpecFormat == InitFormat /\ [][NextFormat]_vars

Sections ==
    <<"SIMILAR HISTORICAL CASES", "SUCCESSFUL TREATMENT PATTERNS",
      "USER'S COMMON ISSUES", "SPECIES-SPECIFIC TIPS">>

\* The four backing lists of a context, in the order of Sections.
BackingLists(ctx) ==
    <<ctx.similar_cases, ctx.successful_treatments,
      IF "common_issues" \in DOMAIN ctx.user_history_patterns
      THEN ctx.user_history_patterns.common_issues ELSE <<>>,
      IF "care_tips" \in DOMAIN ctx.plant_specific_insights
      THEN ctx.plant_specific_insights.care_tips ELSE <<>>>>

\* C21: a section header is in the text iff its backing list is non-empty,
\* the headers present are in the fixed order of the four sections, and the
\* text is the fallback sentence iff all four backing lists are empty.
C21_SectionHeaders ==
    ret.op = "format" =>
        LET text == ret.text
            lists == BackingLists(prev.context)
            headers == {k \in 1..Len(text) : text[k].kind = "header"}
        IN /\ \A n \in 1..4 :
                 (\E k \in headers : text[k].section = Sections[n]) <=> lists[n] # <<>>
           /\ \A j \in headers, k \in headers :
                 j < k => \E m \in 1..4, n \in 1..4 :
                             /\ m < n
                             /\ text[j].section = Sections[m]
                             /\ text[k].section = Sections[n]
           /\ text = Fallback <=> \A n \in 1..4 : lists[n] = <<>>

\* A context with similar cases and care tips but no successful treatment
\* was formatted: two headers.
C21_Witness ==
    /\ ret.op = "format"
    /\ prev.context.similar_cases # <<>>
    /\ prev.context.successful_treatments = <<>>
    /\ "care_tips" \in DOMAIN prev.context.plant_specific_insights
    /\ prev.context.plant_specific_insights.care_tips # <<>>
    /\ Cardinality({k \in 1..Len(ret.text) : ret.text[k].kind = "header"}) >= 2

(***************************************************************************)
(* Photo status, failure handling and deletion (photo_service, photo_repo).*)
(***************************************************************************)
DiagnosisStatus == {"pending", "analyzing", "analyzed", "failed"}

\* get_photo_by_id: the photo exists and belongs to the user.
get_photo_by_id(ph, photo_id, user_id) ==
    ph[photo_id] # NoPhoto /\ Owner(photo_id) = user_id

\* update_photo_status: sets the status when the user's photo is found,
\* whatever the current status is.
update_photo_status(ph, photo_id, status, user_id) ==
    IF get_photo_by_id(ph, photo_id, user_id)
    THEN [ph EXCEPT ![photo_id] = status]
    ELSE ph

\* DiagnosisCreate.validate_identified_issues: every key must be expected.
ExpectedIssueKeys == {"diseases", "pests", "deficiencies", "environmental", "symptoms"}

validate_identified_issues(keys) == keys \subseteq ExpectedIssueKeys

\* The keys of identified_issues in handle_analysis_failure.
FailureIssueKeys == {"errors"}

\* prepare_photo_for_analysis: 404 when the photo is not found, else status
\* analyzing.
PreparePhotoForAnalysis(p, user_id) ==
    /\ Quiet
    /\ photos' = update_photo_status(photos, p, "analyzing", user_id)
    /\ ret' = [op |-> "prepare", photo |-> p, user |-> user_id,
               raised |-> ~get_photo_by_id(photos, p, user_id)]
    /\ prev' = NoRet
    /\ UNCHANGED <<diagnoses, embeddings, pc, loc>>

\* update_photo_diagnosis_status: any status.
UpdatePhotoDiagnosisStatus(p, user_id, status) ==
    /\ Quiet
    /\ photos' = update_photo_status(photos, p, status, user_id)
    /\ ret' = [op |-> "update_status", photo |-> p, user |-> user_id,
               status |-> status, found |-> get_photo_by_id(photos, p, user_id)]
    /\ prev' = NoRet
    /\ UNCHANGED <<diagnoses, embeddings, pc, loc>>

\* handle_analysis_failure: status failed, then a diagnosis record with the
\* error unless building or storing it raises (the except clause only
\* prints).  Issue key 0 stands for "errors:analysis_failed".
HandleAnalysisFailure(p, user_id) ==
    /\ Quiet
    /\ Len(diagnoses) < MaxDiag
    /\ photos' = update_photo_status(photos, p, "failed", user_id)
    /\ LET created == /\ validate_identified_issues(FailureIssueKeys)
                      /\ get_photo_by_id(photos, p, user_id)
       IN /\ diagnoses' =
                IF created
                THEN Append(diagnoses,
                         [id |-> NextId(diagnoses), photo_id |-> p, user_id |-> user_id,
                          diagnosis_text |-> "Analysis failed", confidence_score |-> 0,
                          user_feedback_rating |-> NoNumber,
                          treatment_outcome |-> NULL, identified_issues |-> <<0>>,
                          recommended_actions |-> <<1, 2>>,
                          created_at |-> NextId(diagnoses)])
                ELSE diagnoses
          /\ ret' = [op |-> "handle_failure", photo |-> p, user |-> user_id,
                     created |-> created]
    /\ prev' = NoRet
    /\ UNCHANGED <<embeddings, pc, loc>>

\* Rows of a table that do not reference the photo, in table order.
RECURSIVE without_photo(_, _)
without_photo(table, photo_id) ==
    IF table = <<>> THEN <<>>
    ELSE IF table[1].photo_id = photo_id
    THEN without_photo(Tail(table), photo_id)
    ELSE <<table[1]>> \o without_photo(Tail(table), photo_id)

\* A mutant of cascade: the rows that reference the photo stay.
no_cascade(table, photo_id) == table

\* The relationships of PlantPhoto have cascade="all, delete": deleting the
\* photo deletes its diagnoses and its embeddings.
cascade(table, photo_id) == without_photo(table, photo_id)

\* delete_user_photo: False when the photo is not found or when deleting
\* the files raises (fault "files"), else delete_photo.  cascaded: the
\* number of embeddings deleted with the photo.
DeleteUserPhoto(p, user_id, fault) ==
    /\ Quiet
    /\ IF get_photo_by_id(photos, p, user_id) /\ fault = "none"
       THEN /\ photos' = [photos EXCEPT ![p] = NoPhoto]
            /\ diagnoses' = cascade(diagnoses, p)
            /\ embeddings' = cascade(embeddings, p)
            /\ ret' = [op |-> "delete", photo |-> p, user |-> user_id, ok |-> TRUE,
                       cascaded |-> Len(embeddings) - Len(cascade(embeddings, p))]
       ELSE /\ ret' = [op |-> "delete", photo |-> p, user |-> user_id, ok |-> FALSE,
                       cascaded |-> 0]
            /\ UNCHANGED <<photos, diagnoses, embeddings>>
    /\ prev' = NoRet
    /\ UNCHANGED <<pc, loc>>

\* Row ids come from sequences that never reuse a value; the model stops
\* creating rows once the ids reach the bounds.
IdsWithinBounds(diags, store) ==
    NextId(diags) <= MaxDiag + 1 /\ NextId(store) <= MaxEmb + 1

\* The creating operations (backfill runs in which nothing fails) and the
\* operations on status and photos; failure handling and deletion are also
\* called by a user who does not own the photo.
NextLifecycle ==
    \/ \E p \in PhotoIds : UploadPhoto(p)
    \/ \E p \in PhotoIds :
          CreatePhotoDiagnosis(p) /\ IdsWithinBounds(diagnoses', embeddings')
    \/ \E p \in PhotoIds, f \in {"none", "refresh"} :
          GenerateAndStore(p, f) /\ IdsWithinBounds(diagnoses', embeddings')
    \/ \E limit \in 0..MaxLimit :
          /\ BatchBackfill(limit, FALSE, [i \in 1..Min(limit, Len(diagnoses)) |-> "none"])
          /\ IdsWithinBounds(diagnoses', embeddings')
    \/ \E p \in PhotoIds : PreparePhotoForAnalysis(p, Owner(p))
    \/ \E p \in PhotoIds, st \in DiagnosisStatus :
          UpdatePhotoDiagnosisStatus(p, Owner(p), st)
    \/ \E p \in PhotoIds, u \in Users : HandleAnalysisFailure(p, u)
    \/ \E p \in PhotoIds, u \in Users, f \in {"none", "files"} : DeleteUserPhoto(p, u, f)

SpecLifecycle == Init /\ [][NextLifecycle]_vars

\* C22: every change of a photo's status is one of pending -> analyzing,
\* analyzing -> analyzed, analyzing -> failed.
C22_StatusLifecycle ==
    [][\A p \in PhotoIds :
          (photos[p] # NoPhoto /\ photos'[p] # NoPhoto /\ photos'[p] # photos[p]) =>
              <<photos[p], photos'[p]>> \in {<<"pending", "analyzing">>,
                                            <<"analyzing", "analyzed">>,
                                            <<"analyzing", "failed">>}]_vars

\* C23: every stored embedding belongs to a photo whose status is analyzed
\* and that has a diagnosis record.
C23_EmbeddingsOfAnalyzedPhotos ==
    \A i \in 1..Len(embeddings) :
        /\ photos[embeddings[i].photo_id] = "analyzed"
        /\ \E k \in 1..Len(diagnoses) : diagnoses[k].photo_id = embeddings[i].photo_id

\* C24: in every step each stored embedding stays as it is unless the step
\* is a successful deletion of its photo; a successful deletion leaves no
\* embedding and no diagnosis of that photo and keeps every embedding of
\* the other photos.
C24_EmbeddingsFrame ==
    [][/\ \A i \in 1..Len(embeddings) :
             \/ \E j \in 1..Len(embeddings') : embeddings'[j] = embeddings[i]
             \/ /\ ret'.op = "delete" /\ ret'.ok
                /\ ret'.photo = embeddings[i].photo_id
       /\ (ret'.op = "delete" /\ ret'.ok) =>
             /\ \A j \in 1..Len(embeddings') : embeddings'[j].photo_id # ret'.photo
             /\ \A k \in 1..Len(diagnoses') : diagnoses'[k].photo_id # ret'.photo
             /\ \A i \in 1..Len(embeddings) :
                   embeddings[i].photo_id # ret'.photo =>
                       \E j \in 1..Len(embeddings') : embeddings'[j] = embeddings[i]]_vars

\* A photo was deleted together with its embedding while an embedding of
\* another photo stayed.
C24_Witness ==
    /\ ret.op = "delete" /\ ret.ok
    /\ ret.cascaded >= 1
    /\ embeddings # <<>>

\* C30: after handle_analysis_failure on a photo the user owns, the status
\* is failed and a diagnosis of that photo with the error text and
\* confidence 0.0 is stored.
C30_FailureRecorded ==
    (/\ ret.op = "handle_failure"
     /\ get_photo_by_id(photos, ret.photo, ret.user)) =>
        /\ photos[ret.photo] = "failed"
        /\ \E k \in 1..Len(diagnoses) :
              /\ diagnoses[k].photo_id = ret.photo
              /\ diagnoses[k].diagnosis_text = "Analysis failed"
              /\ diagnoses[k].confidence_score = 0

(***************************************************************************)
(* update_diagnosis (photo_repo) with a DiagnosisUpdate (schemas).         *)
(***************************************************************************)
\* The fields of DiagnosisUpdate.
DiagnosisUpdateFields ==
    {"diagnosis_text", "confidence_score", "identified_issues",
     "recommended_actions", "treatment_outcome", "user_feedback_rating"}

\* update_data.model_dump(exclude_unset=True): the fields the caller set.
Updates ==
    {EmptyDict,
     [treatment_outcome |-> "successful"],
     [user_feedback_rating |-> 5],
     [diagnosis_text |-> "edited"],
     [confidence_score |-> 500, identified_issues |-> <<1>>],
     [recommended_actions |-> <<>>, treatment_outcome |-> "failed"]}

\* A mutant of update_diagnosis: the owner is not part of the filter.
update_diagnosis_any_user(diags, diagnosis_id, update_dict, user_id) ==
    [i \in 1..Len(diags) |->
        IF diags[i].id = diagnosis_id
        THEN [field \in DOMAIN diags[i] |->
                 IF field \in DOMAIN update_dict
                 THEN update_dict[field] ELSE diags[i][field]]
        ELSE diags[i]]

\* update_diagnosis: setattr of every set field on the diagnosis with that
\* id and that owner.
update_diagnosis(diags, diagnosis_id, update_dict, user_id) ==
    [i \in 1..Len(diags) |->
        IF diags[i].id = diagnosis_id /\ diags[i].user_id = user_id
        THEN [field \in DOMAIN diags[i] |->
                 IF field \in DOMAIN update_dict
                 THEN update_dict[field] ELSE diags[i][field]]
        ELSE diags[i]]

\* update_photo_diagnosis: None when the user has no such diagnosis.
UpdatePhotoDiagnosis(diagnosis_id, user_id, update_dict) ==
    /\ ret = NoRet
    /\ diagnoses' = update_diagnosis(diagnoses, diagnosis_id, update_dict, user_id)
    /\ ret' = [op |-> "update_diagnosis", diagnosis |-> diagnosis_id, user |-> user_id,
               update |-> update_dict,
               found |-> \E i \in 1..Len(diagnoses) :
                            /\ diagnoses[i].id = diagnosis_id
                            /\ diagnoses[i].user_id = user_id]
    /\ UNCHANGED <<photos, embeddings, prev, pc, loc>>

NextUpdate ==
    \E diagnosis_id \in 1..MaxDiag, user_id \in Users, update_dict \in Updates :
        UpdatePhotoDiagnosis(diagnosis_id, user_id, update_dict)

SpecUpdate == InitRag /\ [][NextUpdate]_vars

C26_StoredMetadata ==
    (ret.op = "generate" /\ ret.ok /\ ret.embeds = 1) =>
        \E i \in 1..Len(embeddings) :
            /\ embeddings[i].photo_id = ret.photo
            /\ embeddings[i].metadata_info = create_embedding_metadata(ret.photo)
            /\ embeddings[i].metadata_info.plant_species = PlantSpecies(ret.photo)

(***************************************************************************)
(* calculate_cosine_similarity as a pure function.                         *)
(***************************************************************************)
\* Vectors of norm 5 or 0, of dimension 0 to 3.
CosineVectors ==
    {<<0, 0>>, <<5, 0>>, <<4, 3>>, <<3, 4>>, <<0, 5>>, <<-3, 4>>, <<-5, 0>>,
     <<0, -5>>, <<>>, <<0>>, <<5>>, <<0, 0, 0>>}

AllZero(a) == \A i \in 1..Len(a) : a[i] = 0

\* One call; the function catches every exception, it never raises.
CosineSimilarity(a, b) ==
    /\ ret = NoRet
    /\ ret' = [op |-> "cosine", a |-> a, b |-> b, raised |-> FALSE,
               val |-> calculate_cosine_similarity(a, b)]
    /\ UNCHANGED <<photos, diagnoses, embeddings, prev, pc, loc>>

NextCosine == \E a \in CosineVectors, b \in CosineVectors : CosineSimilarity(a, b)

SpecCosine == Init /\ [][NextCosine]_vars

\* C27: the similarity of two vectors is 0.0, and nothing is raised,
\* whenever one of them is all-zero.
C27_ZeroVector ==
    (ret.op = "cosine" /\ (AllZero(ret.a) \/ AllZero(ret.b))) =>
        ret.val = 0 /\ ~ret.raised

\* A zero vector against a non-zero vector of the same dimension.
C27_Witness ==
    /\ ret.op = "cosine"
    /\ AllZero(ret.a) /\ ~AllZero(ret.b) /\ Len(ret.a) = Len(ret.b)
    /\ ret.val = 0

(***************************************************************************)
(* Statistics of a backfill run.                                           *)
(***************************************************************************)
\* The diagnoses a run with this limit reads whose photo has an embedding.
EmbeddedOfRun(limit) ==
    {i \in 1..Min(limit, Len(diagnoses)) :
        ~IsNone(get_embedding_by_photo_id(embeddings, diagnoses[i].photo_id))}

\* C29: the statistics a backfill run returns, also a run ended by an
\* exception, add up: processed = successful + failed + skipped, and
\* successful counts only diagnoses whose photo has a stored embedding.
C29_StatsAddUp ==
    ret.op = "batch" =>
        /\ ret.stats.processed =
               ret.stats.successful + ret.stats.failed + ret.stats.skipped
        /\ ret.stats.successful <= Cardinality(EmbeddedOfRun(ret.limit))

(***************************************************************************)
(* The backfill run again and again with one limit.  Photos are uploaded,  *)
(* diagnosed and embedded on the live path first; from the first run on    *)
(* only runs with the same limit follow, and no call fails.                *)
(***************************************************************************)
BackfillStarted == ret.op = "batch"

\* One more run with the limit of the runs before it.
RepeatBackfill(limit) ==
    /\ BackfillStarted => ret.limit = limit
    /\ BatchBackfill(limit, FALSE, [i \in 1..Min(limit, Len(diagnoses)) |-> "none"])

NextProgress ==
    \/ \E p \in PhotoIds : ~BackfillStarted /\ UploadPhoto(p)
    \/ \E p \in PhotoIds : ~BackfillStarted /\ CreatePhotoDiagnosis(p)
    \/ \E p \in PhotoIds : ~BackfillStarted /\ GenerateAndStore(p, "none")
    \/ \E limit \in 1..MaxLimit : RepeatBackfill(limit)

\* The job is run again as long as a run changes anything.
SpecProgress ==
    Init /\ [][NextProgress]_vars
         /\ WF_vars(\E limit \in 1..MaxLimit : RepeatBackfill(limit))

AllDiagnosesEmbedded ==
    \A i \in 1..Len(diagnoses) :
        ~IsNone(get_embedding_by_photo_id(embeddings, diagnoses[i].photo_id))

\* C28: when no call fails, running the backfill repeatedly with a fixed
\* limit eventually leaves the photo of every existing diagnosis with an
\* embedding, also when more diagnoses exist than the limit and the first
\* ones already have embeddings.
C28_BackfillProgress == BackfillStarted ~> AllDiagnosesEmbedded

====
